---- MODULE Spec2Model ----
(***************************************************************************)
(* BrickByBrick: the brick-packing engine of backend/app/services.         *)
(*                                                                         *)
(* MasterBuilder.process_voxels packs a coloured voxel field layer by      *)
(* layer; the packer suspends only in the palette lookup and in the first   *)
(* availability query for a (part, colour), and a step of the model runs    *)
(* from one of these awaits to the next.  _generate_manifest and           *)
(* PieceCounter.count_pieces are operators over the builder's state.       *)
(*                                                                         *)
(* The part discovery service (app.services.part_discovery) is not among   *)
(* the sources: its discover_parts_for_shape is taken to find no parts, so *)
(* the packer falls back to its own part list.  _process_layer reads       *)
(* self.search_mode, which __init__ does not assign: on a builder whose    *)
(* owner has not assigned it the read raises AttributeError.               *)
(*                                                                         *)
(* Encodings: a part number is the integer its digit string denotes        *)
(* ("3001" is 3001); a hex colour is the sequence of its hexadecimal       *)
(* digits without the leading "#" ("#FF0000" is <<15,15,0,0,0,0>>); the    *)
(* voxel list is a sequence of boxes, each standing for the run of voxel   *)
(* dicts it contains.                                                      *)
(***************************************************************************)
EXTENDS Integers, Sequences, FiniteSets, TLC

VARIABLES
    test_mode,            \* MasterBuilder.test_mode (TEST_MODE at construction)
    api_key,              \* RebrickableAPI.api_key is set
    search_mode,          \* MasterBuilder.search_mode, "unset" while unassigned
    availability_cache,   \* RebrickableAPI._availability_cache
    voxel_data,           \* argument of the current process_voxels call
    voxel_grid,           \* MasterBuilder.voxel_grid
    placed_bricks,        \* MasterBuilder.placed_bricks
    occupied_positions,   \* MasterBuilder.occupied_positions
    layer_bricks,         \* MasterBuilder.layer_bricks
    layer_seams,          \* MasterBuilder.layer_seams
    pc,                   \* position of the process_voxels coroutine
    layer_z,              \* _process_layer: layer being packed
    groups,               \* _process_layer: colour groups still to pack
    hex_color,            \* _process_layer: colour group being packed
    color_id,             \* _process_layer: its palette id
    parts,                \* _process_layer: priority_parts then other_parts
    part_i,               \* _process_layer: index of the part being tried
    remaining_voxels,     \* _process_layer: cells of the group not yet covered
    returned,             \* history of the calls that returned: input and manifest
    calls,                \* verify_part_availability coroutines in flight on the client
    tasks,                \* process_voxels coroutines in flight on one builder
    turn,                 \* the coroutine the event loop is running, 0 when none
    probe                 \* the last call of a function asked on its own: arguments, result

vars == <<test_mode, api_key, search_mode, availability_cache, voxel_data, voxel_grid,
          placed_bricks, occupied_positions, layer_bricks, layer_seams, pc,
          layer_z, groups, hex_color, color_id, parts, part_i,
          remaining_voxels, returned, calls, tasks, turn, probe>>

\* the coroutines that overlap in time
concurrent == <<calls, tasks, turn>>

(***************************************************************************)
(* Bounds of the model.                                                    *)
(***************************************************************************)
XMax == 3
YMax == 1
ZMax == 1
MaxExtra == 1
MaxDenied == 1
MaxRuns == 3
MaxCallers == 2
MaxCalls == 2
MaxTasks == 2

GridX == (0 - 1) .. XMax
GridY == 0 .. YMax
GridZ == 0 .. ZMax

(***************************************************************************)
(* Program constants.                                                      *)
(***************************************************************************)
\* variant: the half turn and the three-quarter turn are tried first
TurnedFirst == <<180, 270, 0, 90>>

ROTATIONS == <<0, 90, 180, 270>>

PRIORITY_BRICK_IDS == (3001 :> 100) @@ (3009 :> 90) @@ (3003 :> 80)

_get_fallback_parts ==
    << [part_num |-> 3001, width |-> 4, height |-> 2],
       [part_num |-> 3009, width |-> 6, height |-> 1],
       [part_num |-> 3003, width |-> 2, height |-> 2],
       [part_num |-> 3004, width |-> 2, height |-> 1],
       [part_num |-> 3005, width |-> 1, height |-> 1] >>

_get_fallback_colors ==
    << [id |-> 0,  rgb |-> <<0, 5, 1, 3, 1, 13>>],
       [id |-> 1,  rgb |-> <<15, 15, 15, 15, 15, 15>>],
       [id |-> 2,  rgb |-> <<2, 3, 7, 8, 4, 1>>],
       [id |-> 3,  rgb |-> <<15, 2, 12, 13, 3, 7>>],
       [id |-> 4,  rgb |-> <<12, 9, 1, 10, 0, 9>>],
       [id |-> 5,  rgb |-> <<12, 9, 1, 10, 0, 9>>],
       [id |-> 6,  rgb |-> <<0, 0, 5, 5, 11, 15>>],
       [id |-> 7,  rgb |-> <<0, 0, 5, 5, 11, 15>>],
       [id |-> 8,  rgb |-> <<15, 15, 6, 11, 0, 0>>],
       [id |-> 9,  rgb |-> <<9, 12, 10, 3, 10, 8>>],
       [id |-> 10, rgb |-> <<6, 11, 5, 10, 5, 10>>],
       [id |-> 11, rgb |-> <<15, 15, 6, 9, 11, 4>>],
       [id |-> 12, rgb |-> <<5, 8, 3, 9, 2, 7>>],
       [id |-> 13, rgb |-> <<12, 8, 7, 0, 10, 0>>],
       [id |-> 14, rgb |-> <<15, 2, 12, 13, 3, 7>>],
       [id |-> 15, rgb |-> <<15, 15, 15, 15, 15, 15>>] >>

\* hex colours of the inputs: "#FF0000" and "#00FF00"
HexColours == << <<15, 15, 0, 0, 0, 0>>, <<0, 0, 15, 15, 0, 0>> >>

(***************************************************************************)
(* Palette mapper (rebrickable_api.py).                                    *)
(***************************************************************************)
_hex_to_rgb(hex_code) ==
    LET h == IF Len(hex_code) = 3
             THEN <<hex_code[1], hex_code[1], hex_code[2], hex_code[2],
                    hex_code[3], hex_code[3]>>
             ELSE hex_code
    IN  <<16 * h[1] + h[2], 16 * h[3] + h[4], 16 * h[5] + h[6]>>

\* The source returns the square root of this sum; the root is strictly
\* increasing and exact enough on 0..195075 for the comparisons of
\* get_closest_lego_color to agree with comparisons of the sums.
_rgb_distance(rgb1, rgb2) ==
    (rgb1[1] - rgb2[1]) * (rgb1[1] - rgb2[1])
  + (rgb1[2] - rgb2[2]) * (rgb1[2] - rgb2[2])
  + (rgb1[3] - rgb2[3]) * (rgb1[3] - rgb2[3])

_fetch_colors == _get_fallback_colors

RECURSIVE ClosestLoop(_, _, _, _)
\* the for loop of get_closest_lego_color: best is <<>> (None) or <<colour>>
ClosestLoop(colors, target_rgb, best, best_distance) ==
    IF colors = <<>> THEN best
    ELSE LET color == Head(colors)
             distance == _rgb_distance(target_rgb, _hex_to_rgb(color.rgb))
         IN  IF best = <<>> \/ distance < best_distance
             THEN ClosestLoop(Tail(colors), target_rgb, <<color>>, distance)
             ELSE ClosestLoop(Tail(colors), target_rgb, best, best_distance)

get_closest_lego_color(hex_code) ==
    LET best_match == ClosestLoop(_fetch_colors, _hex_to_rgb(hex_code), <<>>, 0)
    IN  IF best_match # <<>> THEN best_match[1].id ELSE 1

(***************************************************************************)
(* Geometry helpers (master_builder.py).                                   *)
(***************************************************************************)
_get_rotated_dimensions(width, height, rotation) ==
    IF rotation \in {90, 270} THEN <<height, width>> ELSE <<width, height>>

\* variant: only the first row of the rectangle
RowOnlyPositions(start_x, start_y, width, height) ==
    {<<start_x + dx, start_y>> : dx \in 0 .. (width - 1)}

_get_rectangular_positions(start_x, start_y, width, height) ==
    {<<start_x + dx, start_y + dy>> : dx \in 0 .. (width - 1), dy \in 0 .. (height - 1)}

\* variant: only the origin stud
OriginOnly(position, width, height, z) == {<<position[1], position[2], z>>}

_get_brick_occupied_positions(position, width, height, z) ==
    {<<position[1] + dx, position[2] + dy, z>> :
        dx \in 0 .. (width - 1), dy \in 0 .. (height - 1)}

_can_place_brick_at(occupied, x, y, z, width, height) ==
    _get_brick_occupied_positions(<<x, y, z>>, width, height, z) \cap occupied = {}

\* dict.get(key, default) and defaultdict[key]
Get(d, k, default) == IF k \in DOMAIN d THEN d[k] ELSE default

\* d[k] = v
Put(d, k, v) == (k :> v) @@ d

LexLess(a, b) == a[1] < b[1] \/ (a[1] = b[1] /\ a[2] < b[2])

RECURSIVE sorted(_)
\* sorted(set of (x, y) tuples)
sorted(S) ==
    IF S = {} THEN <<>>
    ELSE LET m == CHOOSE c \in S : \A d \in S \ {c} : LexLess(c, d)
         IN  <<m>> \o sorted(S \ {m})

(***************************************************************************)
(* Inputs: voxel lists made of disjoint one-layer boxes (section 3 of the  *)
(* specification: duplicates at one (x,y,z) are invalid): at most one box  *)
(* of the first colour followed by at most MaxExtra single voxels of any   *)
(* colour.  Lists that differ only in the order of their voxels are        *)
(* represented by one order.                                               *)
(***************************************************************************)
Box(x0, x1, y0, y1, z, hex) ==
    [x0 |-> x0, x1 |-> x1, y0 |-> y0, y1 |-> y1, z |-> z, hex_color |-> hex]

Boxes ==
    {Box(q[1], q[2], q[3], q[4], q[5], HexColours[1]) :
        q \in {r \in GridX \X GridX \X GridY \X GridY \X GridZ :
                  r[1] <= r[2] /\ r[3] <= r[4]}}

Units ==
    {Box(q[1], q[1], q[2], q[2], q[3], HexColours[q[4]]) :
        q \in GridX \X GridY \X GridZ \X DOMAIN HexColours}

BoxCells(b) == {<<x, y, b.z>> : x \in b.x0 .. b.x1, y \in b.y0 .. b.y1}

UnitLess(a, b) ==
    \/ a.z < b.z
    \/ a.z = b.z /\ LexLess(<<a.x0, a.y0>>, <<b.x0, b.y0>>)

RECURSIVE UnitLists(_)
UnitLists(n) ==
    IF n = 0 THEN {<<>>}
    ELSE LET shorter == UnitLists(n - 1)
         IN  shorter \cup
             {Append(p[1], p[2]) :
                 p \in {q \in shorter \X Units :
                           /\ Len(q[1]) = n - 1
                           /\ q[1] # <<>> => UnitLess(q[1][Len(q[1])], q[2])}}

VoxelInputs ==
    UnitLists(MaxExtra) \cup
    {<<p[1]>> \o p[2] :
        p \in {q \in Boxes \X UnitLists(MaxExtra) :
                  \A i \in DOMAIN q[2] : BoxCells(q[1]) \cap BoxCells(q[2][i]) = {}}}

(***************************************************************************)
(* process_voxels: loading the grid and iterating the layers.              *)
(***************************************************************************)
\* "for voxel in voxel_data: self.voxel_grid[(x, y, z)] = hex_color"
LoadVoxels(vd) ==
    [c \in UNION {BoxCells(vd[i]) : i \in DOMAIN vd} |->
        LET last == CHOOSE i \in DOMAIN vd :
                        /\ c \in BoxCells(vd[i])
                        /\ \A j \in DOMAIN vd : c \in BoxCells(vd[j]) => j <= i
        IN  vd[last].hex_color]

LayersOf(grid) == {c[3] : c \in DOMAIN grid}

\* the layers the loop "for z in range(min_z, max_z + 1)" still packs after layer z
LaterLayers(grid, z) == {zz \in LayersOf(grid) : zz > z}

Min(S) == CHOOSE m \in S : \A n \in S : m <= n

RECURSIVE GroupOrder(_, _, _)
\* keys of color_groups in insertion order: first appearance in the layer
GroupOrder(vd, z, seen) ==
    IF vd = <<>> THEN <<>>
    ELSE LET b == Head(vd)
         IN  IF b.z = z /\ b.hex_color \notin seen
             THEN <<b.hex_color>> \o GroupOrder(Tail(vd), z, seen \cup {b.hex_color})
             ELSE GroupOrder(Tail(vd), z, seen)

\* color_groups[hex_color] of layer z
VoxelSet(grid, z, hex) ==
    {<<c[1], c[2]>> : c \in {d \in DOMAIN grid : d[3] = z /\ grid[d] = hex}}

(***************************************************************************)
(* _process_layer: the order in which the candidate parts are tried.       *)
(***************************************************************************)
\* the part discovery service is not among the sources: it finds nothing
discover_parts_for_shape == <<>>

DiscoveredParts ==
    IF discover_parts_for_shape = <<>> THEN _get_fallback_parts
    ELSE discover_parts_for_shape

Priority(p) == Get(PRIORITY_BRICK_IDS, p.part_num, 0)

RECURSIVE SortByPriority(_)
\* list.sort(key=priority, reverse=True): stable
SortByPriority(s) ==
    IF s = <<>> THEN <<>>
    ELSE LET rest == SortByPriority(Tail(s))
             k == Cardinality({i \in DOMAIN rest : Priority(rest[i]) > Priority(Head(s))})
         IN  SubSeq(rest, 1, k) \o <<Head(s)>> \o SubSeq(rest, k + 1, Len(rest))

IsPriorityPart(p) == p.part_num \in DOMAIN PRIORITY_BRICK_IDS
IsOtherPart(p) == p.part_num \notin DOMAIN PRIORITY_BRICK_IDS

RECURSIVE Reversed(_)
Reversed(s) == IF s = <<>> THEN <<>> ELSE Reversed(Tail(s)) \o <<Head(s)>>

\* variant: the candidates are tried in the opposite order
SmallestFirst(discovered_parts) ==
    Reversed(SortByPriority(SelectSeq(discovered_parts, IsPriorityPart))
                \o SelectSeq(discovered_parts, IsOtherPart))

\* priority_parts (first pass) followed by other_parts (second pass)
PartOrder(discovered_parts) ==
    SortByPriority(SelectSeq(discovered_parts, IsPriorityPart))
       \o SelectSeq(discovered_parts, IsOtherPart)

(***************************************************************************)
(* _greedy_place_bricks_with_verification.                                 *)
(***************************************************************************)
\* variant: no alignment is required
AnyOrigin(x, y, z) == TRUE

\* laminar interlocking: the origin is aligned with the layer's parity
ParityAligned(x, y, z) ==
    IF z % 2 = 0 THEN ~((x % 2 # 0) \/ (y % 2 # 0))
                 ELSE ~((x % 2 # 1) \/ (y % 2 # 1))

\* variant: only bricks of x-extent 1 are held to the seams
SeamSkipNarrow(x, width, z, prev_layer_seams) ==
    /\ prev_layer_seams # {} /\ z > 0
    /\ LET brick_end_x == x + width
           bridges_seams == \E seam_x \in prev_layer_seams :
                                x <= seam_x /\ seam_x < brick_end_x
       IN  ~bridges_seams /\ prev_layer_seams # {} /\ width <= 1

\* staggered joints: the candidate is skipped
SeamSkip(x, width, z, prev_layer_seams) ==
    /\ prev_layer_seams # {} /\ z > 0
    /\ LET brick_end_x == x + width
           bridges_seams == \E seam_x \in prev_layer_seams :
                                x <= seam_x /\ seam_x < brick_end_x
       IN  ~bridges_seams /\ prev_layer_seams # {} /\ width <= 2

\* self.layer_seams.get(layer_z - 1, set()) if layer_z > 0 else set()
PrevLayerSeams(seams, z) == IF z > 0 THEN Get(seams, z - 1, {}) ELSE {}

PlacedBrick(part_id, position, rotation, cid, is_verified) ==
    [part_id |-> part_id, position |-> position, rotation |-> rotation,
     color_id |-> cid, is_verified |-> is_verified]

\* body of "for x, y in sorted_voxels" for one cell; st carries the builder
\* fields the loop writes and the locals placed and remaining
GreedyVisit(st, cell, width, height, part_id, cid, z, rotation, prev_layer_seams) ==
    LET x == cell[1]
        y == cell[2]
        required_positions == _get_rectangular_positions(x, y, width, height)
        brick == PlacedBrick(part_id, <<x, y, z>>, rotation, cid, TRUE)
    IN  IF ~ParityAligned(x, y, z) THEN st
        ELSE IF SeamSkip(x, width, z, prev_layer_seams) THEN st
        ELSE IF ~_can_place_brick_at(st.occupied_positions, x, y, z, width, height) THEN st
        ELSE IF ~(required_positions \subseteq st.remaining) THEN st
        ELSE [placed |-> Append(st.placed, brick),
              remaining |-> st.remaining \ required_positions,
              placed_bricks |-> Append(st.placed_bricks, brick),
              layer_bricks |-> Put(st.layer_bricks, z,
                                   Append(Get(st.layer_bricks, z, <<>>), brick)),
              occupied_positions |-> st.occupied_positions \cup
                    _get_brick_occupied_positions(<<x, y, z>>, width, height, z),
              layer_seams |-> Put(st.layer_seams, z,
                                  Get(st.layer_seams, z, {}) \cup {x, x + width})]

RECURSIVE GreedyLoop(_, _, _, _, _, _, _, _, _)
GreedyLoop(st, sorted_voxels, width, height, part_id, cid, z, rotation, prev_layer_seams) ==
    IF sorted_voxels = <<>> THEN st
    ELSE GreedyLoop(GreedyVisit(st, Head(sorted_voxels), width, height, part_id, cid,
                                z, rotation, prev_layer_seams),
                    Tail(sorted_voxels), width, height, part_id, cid, z, rotation,
                    prev_layer_seams)

\* variant: the oracle's answer is not consulted
PlaceRegardless(st0, voxels, width, height, part_id, cid, z, rotation, is_available) ==
    GreedyLoop([st0 EXCEPT !.placed = <<>>, !.remaining = voxels], sorted(voxels),
               width, height, part_id, cid, z, rotation,
               PrevLayerSeams(st0.layer_seams, z))

\* the call after the oracle has answered is_available
_greedy_place_bricks(st0, voxels, width, height, part_id, cid, z, rotation, is_available) ==
    LET st == [st0 EXCEPT !.placed = <<>>, !.remaining = voxels]
    IN  IF ~is_available THEN st
        ELSE GreedyLoop(st, sorted(voxels), width, height, part_id, cid, z, rotation,
                        PrevLayerSeams(st0.layer_seams, z))

(***************************************************************************)
(* Availability oracle: RebrickableAPI.verify_part_availability.  Each     *)
(* outcome is the returned verdict and the cache after the call.           *)
(***************************************************************************)
Denied(cache) == {k \in DOMAIN cache : ~cache[k]}

verify_part_availability(cache, key, part_id, cid) ==
    LET cache_key == <<part_id, cid>>
    IN  IF cache_key \in DOMAIN cache
        THEN {[is_available |-> cache[cache_key], cache |-> cache]}
        ELSE IF ~key
        THEN {[is_available |-> TRUE, cache |-> Put(cache, cache_key, TRUE)]}
        ELSE {[is_available |-> status = 200, cache |-> Put(cache, cache_key, status = 200)] :
                 status \in {200} \cup (IF Cardinality(Denied(cache)) < MaxDenied
                                        THEN {404} ELSE {})}

\* lines 394-405 of the packer: test mode asks nobody
OracleOutcomes(tm, cache, key, part_id, cid) ==
    IF tm THEN {[is_available |-> TRUE, cache |-> cache]}
    ELSE verify_part_availability(cache, key, part_id, cid)

(***************************************************************************)
(* _generate_manifest and PieceCounter.count_pieces.                       *)
(***************************************************************************)
\* brick_dimensions: studs of a part as the manifest reports them
brick_dimensions ==
    (3001 :> [studs_width |-> 4, studs_depth |-> 2, studs_height |-> 1]) @@
    (3009 :> [studs_width |-> 6, studs_depth |-> 1, studs_height |-> 1]) @@
    (3003 :> [studs_width |-> 2, studs_depth |-> 2, studs_height |-> 1]) @@
    (3004 :> [studs_width |-> 2, studs_depth |-> 1, studs_height |-> 1]) @@
    (3005 :> [studs_width |-> 1, studs_depth |-> 1, studs_height |-> 1])

\* covered_voxels: the nested loops over vx, vy, vz as one list
CoveredVoxels(x, y, z, dims) ==
    [k \in 1 .. (dims.studs_width * dims.studs_depth * dims.studs_height) |->
        <<x + ((k - 1) \div (dims.studs_depth * dims.studs_height)),
          y + (((k - 1) \div dims.studs_height) % dims.studs_depth),
          z + ((k - 1) % dims.studs_height)>>]

\* brick_data; position is the dict of the manifest with its "studs" entry,
\* the millimetre figures (position.mm, dimensions.mm, vertices) are left out
BrickData(brick) ==
    LET dims == Get(brick_dimensions, brick.part_id,
                    [studs_width |-> 1, studs_depth |-> 1, studs_height |-> 1])
    IN  [part_id |-> brick.part_id, position |-> [studs |-> brick.position],
         dimensions |-> [width |-> dims.studs_width, depth |-> dims.studs_depth,
                         height |-> dims.studs_height],
         rotation |-> brick.rotation, color_id |-> brick.color_id,
         voxel_coverage |-> CoveredVoxels(brick.position[1], brick.position[2],
                                          brick.position[3], dims),
         is_verified |-> brick.is_verified]

RECURSIVE VoxelCoverage(_)
\* manifest["voxel_coverage"]: one entry per covered voxel of each brick
VoxelCoverage(brick_data) ==
    IF brick_data = <<>> THEN <<>>
    ELSE LET b == Head(brick_data)
         IN  [k \in DOMAIN b.voxel_coverage |->
                 [voxel |-> b.voxel_coverage[k], part_id |-> b.part_id]]
             \o VoxelCoverage(Tail(brick_data))

RECURSIVE InventoryKeys(_, _)
\* keys of the inventory defaultdict in insertion order
InventoryKeys(bricks, seen) ==
    IF bricks = <<>> THEN <<>>
    ELSE LET key == <<Head(bricks).part_id, Head(bricks).color_id>>
         IN  IF key \in seen THEN InventoryKeys(Tail(bricks), seen)
             ELSE <<key>> \o InventoryKeys(Tail(bricks), seen \cup {key})

\* variant: the rows are counted by part, whatever the colour
CountPart(bricks, key) ==
    Cardinality({i \in DOMAIN bricks : bricks[i].part_id = key[1]})

CountKey(bricks, key) ==
    Cardinality({i \in DOMAIN bricks : <<bricks[i].part_id, bricks[i].color_id>> = key})

Inventory(bricks) ==
    LET keys == InventoryKeys(bricks, {})
    IN  [i \in DOMAIN keys |->
            [part_id |-> keys[i][1], color_id |-> keys[i][2],
             quantity |-> CountKey(bricks, keys[i])]]

\* self.seam_map: the empty list of __init__; its one writer,
\* _update_seam_map, is called from nowhere in the repository, so the field
\* keeps this value in every state of every builder
seam_map == <<>>

_generate_manifest(bricks, by_layer) ==
    [total_bricks |-> Len(bricks),
     seam_map |-> seam_map,
     bricks |-> [i \in DOMAIN bricks |-> BrickData(bricks[i])],
     voxel_coverage |-> VoxelCoverage([i \in DOMAIN bricks |-> BrickData(bricks[i])]),
     layers |-> [layer \in DOMAIN by_layer |-> Len(by_layer[layer])],
     inventory |-> Inventory(bricks)]

RECURSIVE SumSeq(_)
SumSeq(s) == IF s = <<>> THEN 0 ELSE Head(s) + SumSeq(Tail(s))

\* PIECE_PRICES in cents (the table is in dollars with two decimals)
PIECE_PRICES ==
    (3001 :> 10) @@ (3002 :> 8) @@ (3003 :> 6) @@ (3004 :> 4) @@ (3005 :> 3) @@
    (3009 :> 8) @@ (3068 :> 5) @@ (3069 :> 3) @@ (3070 :> 2) @@ (3938 :> 12) @@
    (6134 :> 10)

\* variant: every part at the default price of five cents
DefaultPrice(part_id) == 5

\* PieceCounter.PIECE_PRICES.get(part_id, 0.05), in cents
PricePerPiece(part_id) == Get(PIECE_PRICES, part_id, 5)

RECURSIVE TotalCost(_, _)
\* total_cost += price_per_piece * quantity over piece_counts.items()
TotalCost(keys, bricks) ==
    IF keys = <<>> THEN 0
    ELSE PricePerPiece(Head(keys)[1]) * CountKey(bricks, Head(keys))
             + TotalCost(Tail(keys), bricks)

\* round(total_cost, 2) of an amount held in cents: the products and sums
\* of the two-decimal prices differ from a whole number of cents by the
\* binary rounding error only, far less than the half cent round() resolves
Round2(cents) == cents

\* PieceSummary of count_pieces; piece_counts is keyed by (part_id, color_id)
count_pieces(manifest) ==
    LET bricks == manifest.bricks
        keys == InventoryKeys(bricks, {})
        piece_counts == [i \in DOMAIN keys |-> CountKey(bricks, keys[i])]
    IN  [total_unique_pieces |-> Len(keys),
         total_pieces |-> SumSeq(piece_counts),
         estimated_cost |-> Round2(TotalCost(keys, bricks))]

(***************************************************************************)
(* State machine.                                                          *)
(***************************************************************************)
NoColour == <<>>

\* no function has been called on its own
NoProbe == [op |-> "none"]

\* coroutines of verify_part_availability on the global client
Callers == 1 .. MaxCallers
IdleCall ==
    [pc |-> "idle", made |-> 0, cache_key |-> <<>>, result |-> FALSE, queried |-> FALSE]

\* coroutines of process_voxels on one builder
Tasks == 1 .. MaxTasks
IdleTask ==
    [pc |-> "idle", voxel_data |-> <<>>, max_z |-> 0, layer_z |-> 0, groups |-> <<>>,
     hex_color |-> NoColour, color_id |-> 0, parts |-> <<>>, part_i |-> 0, rot_i |-> 0,
     remaining_voxels |-> {}]

\* TEST_MODE set; otherwise REBRICKABLE_API_KEY missing or present
\* search_mode of a builder: as constructed, or assigned by its owner
SearchModes == {"unset", "hard"}

Modes == {<<TRUE, FALSE>>, <<FALSE, FALSE>>, <<FALSE, TRUE>>}

Init ==
    /\ \E m \in Modes : test_mode = m[1] /\ api_key = m[2]
    /\ availability_cache = <<>>
    /\ voxel_data = <<>>
    /\ voxel_grid = <<>>
    /\ placed_bricks = <<>>
    /\ occupied_positions = {}
    /\ layer_bricks = <<>>
    /\ layer_seams = <<>>
    /\ search_mode \in SearchModes
    /\ pc = "idle"
    /\ layer_z = 0
    /\ groups = <<>>
    /\ hex_color = NoColour
    /\ color_id = 0
    /\ parts = <<>>
    /\ part_i = 0
    /\ remaining_voxels = {}
    /\ returned = <<>>
    /\ calls = [c \in Callers |-> IdleCall]
    /\ tasks = [t \in Tasks |-> IdleTask]
    /\ turn = 0
    /\ probe = NoProbe

ClearLocals ==
    /\ layer_z' = 0
    /\ groups' = <<>>
    /\ hex_color' = NoColour
    /\ color_id' = 0
    /\ parts' = <<>>
    /\ part_i' = 0
    /\ remaining_voxels' = {}

\* process_voxels returns self._generate_manifest()
Return(vd, bricks, by_layer) ==
    /\ pc' = "done"
    /\ returned' = Append(returned, [voxel_data |-> vd,
                                     manifest |-> _generate_manifest(bricks, by_layer)])
    /\ ClearLocals

\* variant: process_voxels without its reset block
WithoutReset(vd) ==
    LET grid == LoadVoxels(vd)
    IN  /\ voxel_data' = vd
        /\ voxel_grid' = grid
        /\ UNCHANGED <<test_mode, api_key, search_mode, availability_cache, layer_seams,
                       placed_bricks, occupied_positions, layer_bricks>>
        /\ IF DOMAIN grid = {}
           THEN Return(vd, placed_bricks, layer_bricks)
           ELSE /\ pc' = "group"
                /\ layer_z' = Min(LayersOf(grid))
                /\ groups' = GroupOrder(vd, Min(LayersOf(grid)), {})
                /\ UNCHANGED <<hex_color, color_id, parts, part_i,
                               remaining_voxels, returned>>

\* process_voxels up to the first await: reset, load, first layer
ProcessVoxelsFrom(vd) ==
    LET grid == LoadVoxels(vd)
    IN  /\ voxel_data' = vd
        /\ voxel_grid' = grid
        /\ placed_bricks' = <<>>
        /\ occupied_positions' = {}
        /\ layer_bricks' = <<>>
        /\ UNCHANGED <<test_mode, api_key, search_mode, availability_cache, layer_seams>>
        /\ IF DOMAIN grid = {}
           THEN Return(vd, <<>>, <<>>)
           ELSE /\ pc' = "group"
                /\ layer_z' = Min(LayersOf(grid))
                /\ groups' = GroupOrder(vd, Min(LayersOf(grid)), {})
                /\ UNCHANGED <<hex_color, color_id, parts, part_i,
                               remaining_voxels, returned>>

\* a freshly constructed builder is given a voxel list
ProcessVoxels ==
    /\ pc = "idle"
    /\ UNCHANGED <<concurrent, probe>>
    /\ \E vd \in VoxelInputs : ProcessVoxelsFrom(vd)

\* _process_layer, head of the colour-group loop: palette lookup, part order
\* "self.search_mode == 'hard'" on a builder without the attribute raises
\* AttributeError out of process_voxels
BeginGroup ==
    /\ pc = "group"
    /\ UNCHANGED <<concurrent, probe>>
    /\ IF search_mode = "unset"
       THEN /\ pc' = "raised"
            /\ ClearLocals
       ELSE /\ hex_color' = Head(groups)
            /\ groups' = Tail(groups)
            /\ color_id' = get_closest_lego_color(Head(groups))
            /\ parts' = PartOrder(DiscoveredParts)
            /\ part_i' = 1
            /\ remaining_voxels' = VoxelSet(voxel_grid, layer_z, Head(groups))
            /\ pc' = "part"
            /\ layer_z' = layer_z
    /\ UNCHANGED <<test_mode, api_key, search_mode, availability_cache, voxel_data,
                   voxel_grid, placed_bricks, occupied_positions, layer_bricks,
                   layer_seams, returned>>

\* cells the bricks of one pass cover: "remaining_voxels -= occupied_2d"
Occupied2D(placed, rot_width, rot_height, z) ==
    UNION {{<<c[1], c[2]>> :
              c \in _get_brick_occupied_positions(placed[i].position, rot_width,
                                                  rot_height, z)} : i \in DOMAIN placed}

RECURSIVE TryRotations(_, _, _, _, _, _)
\* "for rotation in self.ROTATIONS" for one part: r is [st, remaining_voxels]
TryRotations(r, rot_i, part_info, cid, z, is_available) ==
    IF rot_i > Len(ROTATIONS) \/ r.remaining_voxels = {} THEN r
    ELSE LET rotation == ROTATIONS[rot_i]
             dims == _get_rotated_dimensions(part_info.width, part_info.height, rotation)
             st == _greedy_place_bricks(r.st, r.remaining_voxels, dims[1], dims[2],
                                        part_info.part_num, cid, z, rotation,
                                        is_available)
         IN  TryRotations([st |-> st,
                           remaining_voxels |-> r.remaining_voxels \
                               Occupied2D(st.placed, dims[1], dims[2], z)],
                          rot_i + 1, part_info, cid, z, is_available)

\* one part of _process_layer (its rotations) and the loop control after it
TryPart ==
    /\ pc = "part"
    /\ UNCHANGED <<concurrent, probe>>
    /\ LET part_info == parts[part_i]
           st0 == [placed |-> <<>>, remaining |-> {}, placed_bricks |-> placed_bricks,
                   layer_bricks |-> layer_bricks,
                   occupied_positions |-> occupied_positions,
                   layer_seams |-> layer_seams]
       IN  \E o \in OracleOutcomes(test_mode, availability_cache, api_key,
                                   part_info.part_num, color_id) :
           \E r \in {TryRotations([st |-> st0, remaining_voxels |-> remaining_voxels],
                                   1, part_info, color_id, layer_z, o.is_available)} :
             LET st == r.st
                 rem == r.remaining_voxels
                 group_done == rem = {} \/ part_i = Len(parts)
                 later == LaterLayers(voxel_grid, layer_z)
             IN  /\ availability_cache' = o.cache
                 /\ placed_bricks' = st.placed_bricks
                 /\ layer_bricks' = st.layer_bricks
                 /\ occupied_positions' = st.occupied_positions
                 /\ layer_seams' = st.layer_seams
                 /\ UNCHANGED <<test_mode, api_key, search_mode, voxel_data, voxel_grid>>
                 /\ IF ~group_done
                    THEN /\ remaining_voxels' = rem
                         /\ part_i' = part_i + 1
                         /\ UNCHANGED <<pc, layer_z, groups, hex_color, color_id, parts,
                                        returned>>
                    ELSE IF groups # <<>>
                    THEN /\ pc' = "group"
                         /\ UNCHANGED <<layer_z, groups, returned>>
                         /\ hex_color' = NoColour /\ color_id' = 0 /\ parts' = <<>>
                         /\ part_i' = 0 /\ remaining_voxels' = {}
                    ELSE IF later # {}
                    THEN /\ pc' = "group"
                         /\ layer_z' = Min(later)
                         /\ groups' = GroupOrder(voxel_data, Min(later), {})
                         /\ UNCHANGED returned
                         /\ hex_color' = NoColour /\ color_id' = 0 /\ parts' = <<>>
                         /\ part_i' = 0 /\ remaining_voxels' = {}
                    ELSE Return(voxel_data, st.placed_bricks, st.layer_bricks)

Next == ProcessVoxels \/ BeginGroup \/ TryPart

Spec == Init /\ [][Next]_vars

\* voxel lists given to a builder that is used for several calls
SingleVoxelInputs ==
    {vd \in UnitLists(1) : \A i \in DOMAIN vd : vd[i].hex_color = HexColours[1]}

\* the module-level builder of the pipeline endpoints: the next request is
\* packed by the builder that packed the previous ones
ProcessVoxelsReused ==
    /\ pc \in {"idle", "done", "raised"}
    /\ UNCHANGED <<concurrent, probe>>
    /\ Len(returned) < MaxRuns
    /\ \E vd \in SingleVoxelInputs : ProcessVoxelsFrom(vd)

NextRuns == ProcessVoxelsReused \/ BeginGroup \/ TryPart

SpecRuns == Init /\ [][NextRuns]_vars

(***************************************************************************)
(* Vocabulary of the properties.                                           *)
(***************************************************************************)
\* width and depth of a part in the candidate catalogue
PartInfo(part_id) ==
    DiscoveredParts[CHOOSE i \in DOMAIN DiscoveredParts :
                        DiscoveredParts[i].part_num = part_id]

\* x-extent and y-extent of a placed brick after its rotation
RotWidth(b) ==
    IF b.rotation \in {90, 270} THEN PartInfo(b.part_id).height
    ELSE PartInfo(b.part_id).width

RotDepth(b) ==
    IF b.rotation \in {90, 270} THEN PartInfo(b.part_id).width
    ELSE PartInfo(b.part_id).height

Origin(b) == <<b.position[1], b.position[2]>>
LayerOf(b) == b.position[3]

\* studs [x, x+w') x [y, y+d') at layer z
Footprint(b) ==
    {<<x, y, LayerOf(b)>> :
        x \in b.position[1] .. (b.position[1] + RotWidth(b) - 1),
        y \in b.position[2] .. (b.position[2] + RotDepth(b) - 1)}

Placed == {placed_bricks[i] : i \in DOMAIN placed_bricks}

BricksOn(z) == {b \in Placed : LayerOf(b) = z}

\* brick edges of a layer: x and x+w' of its bricks
SeamColumns(z) ==
    UNION {{b.position[1], b.position[1] + RotWidth(b)} : b \in BricksOn(z)}

Covering(v) == {i \in DOMAIN placed_bricks : v \in Footprint(placed_bricks[i])}

\* the palette ids of the input colours in the fallback colour table:
\* "#FF0000" is nearest to C91A09 (id 4), "#00FF00" to 237841 (id 2)
PaletteId(hex) == IF hex = HexColours[1] THEN 4 ELSE 2

\* the run in progress has returned its manifest
Done == pc = "done"

LastManifest == returned[Len(returned)].manifest

\* the bricks of a manifest, each with its stud position (position.studs)
StudBricks(manifest) ==
    [i \in DOMAIN manifest.bricks |->
        [manifest.bricks[i] EXCEPT !.position = @.studs]]

(***************************************************************************)
(* C1  Coverage: when process_voxels has returned, every input voxel lies  *)
(* in the footprint of exactly one placed brick.                           *)
(***************************************************************************)
C1_Coverage ==
    Done => \A v \in DOMAIN voxel_grid : Cardinality(Covering(v)) = 1

(***************************************************************************)
(* C2  Non-overlap: in every state of a packing run, the footprints of two *)
(* distinct placed bricks share no stud.                                   *)
(***************************************************************************)
C2_NonOverlap ==
    \A i, j \in DOMAIN placed_bricks :
        i # j => Footprint(placed_bricks[i]) \cap Footprint(placed_bricks[j]) = {}

\* two bricks of different parts lie side by side on one layer of a finished run
C2_Witness ==
    /\ Done
    /\ \E a, b \in Placed :
          /\ LayerOf(a) = LayerOf(b) /\ a.part_id # b.part_id
          /\ a.position[1] + RotWidth(a) = b.position[1]

(***************************************************************************)
(* C3  Colour purity and fit: every stud of every placed brick is an input *)
(* voxel of one colour group, and the brick's colour id is the palette id  *)
(* of that group's hex colour.                                             *)
(***************************************************************************)
C3_ColourPurity ==
    \A b \in Placed :
        /\ Footprint(b) \subseteq DOMAIN voxel_grid
        /\ \A v, w \in Footprint(b) : voxel_grid[v] = voxel_grid[w]
        /\ \A v \in Footprint(b) : b.color_id = PaletteId(voxel_grid[v])

\* one layer holds a brick of more than one stud next to a brick of the other colour
C3_Witness ==
    \E a, b \in Placed :
        /\ LayerOf(a) = LayerOf(b) /\ a.color_id = 4 /\ b.color_id = 2
        /\ Cardinality(Footprint(a)) > 1
        /\ \E v \in Footprint(a), w \in Footprint(b) :
              v[2] = w[2] /\ (v[1] = w[1] + 1 \/ w[1] = v[1] + 1)

C5_SeamBridging ==
    \A b \in Placed :
        (/\ LayerOf(b) >= 1
         /\ \E c \in SeamColumns(LayerOf(b) - 1) :
               b.position[1] <= c /\ c < b.position[1] + RotWidth(b))
        => RotWidth(b) >= 2

(***************************************************************************)
(* C6  Successive layers' seam sets are disjoint: no column is a brick     *)
(* edge on layer z and on layer z+1.                                       *)
(***************************************************************************)
C6_SeamsDisjoint ==
    \A z \in GridZ : SeamColumns(z) \cap SeamColumns(z + 1) = {}

\* the canonical sort key (z, y, x, part) and its lexicographic order
SortKey(b) ==
    <<b.position.studs[3], b.position.studs[2], b.position.studs[1], b.part_id>>

RECURSIVE KeyLeq(_, _)
KeyLeq(k, l) ==
    \/ k = <<>>
    \/ Head(k) < Head(l)
    \/ Head(k) = Head(l) /\ KeyLeq(Tail(k), Tail(l))

(***************************************************************************)
(* C7  Determinism: two packing runs given the identical voxel list (the   *)
(* catalogue is fixed and the oracle's answers are memoised) emit the same *)
(* bricks[] once both lists are sorted by (z, y, x, part).                 *)
(***************************************************************************)
RECURSIVE CanonicalSort(_)
CanonicalSort(S) ==
    IF S = {} THEN <<>>
    ELSE LET m == CHOOSE b \in S : \A c \in S : KeyLeq(SortKey(b), SortKey(c))
         IN  <<m>> \o CanonicalSort(S \ {m})

SortedBricks(bricks) == CanonicalSort({bricks[i] : i \in DOMAIN bricks})

C7_Determinism ==
    \A m, n \in DOMAIN returned :
        returned[m].voxel_data = returned[n].voxel_data
        => SortedBricks(returned[m].manifest.bricks)
             = SortedBricks(returned[n].manifest.bricks)

(***************************************************************************)
(* C8  Manifest ordering: bricks[] of every returned manifest is sorted    *)
(* ascending by (z, y, x, part_id).                                        *)
(***************************************************************************)
IsSorted(bricks) ==
    \A i, j \in DOMAIN bricks : i < j => KeyLeq(SortKey(bricks[i]), SortKey(bricks[j]))

C8_ManifestSorted ==
    \A n \in DOMAIN returned : IsSorted(returned[n].manifest.bricks)

(***************************************************************************)
(* C9  Inventory balance: in every returned manifest the inventory         *)
(* quantities, total_bricks, the length of bricks[], the per-layer counts  *)
(* and count_pieces' total_pieces are one number.                          *)
(***************************************************************************)
SumOver(f) == SumSeq([i \in 1 .. Cardinality(DOMAIN f) |->
                        f[CHOOSE k \in DOMAIN f :
                              Cardinality({l \in DOMAIN f : l < k}) = i - 1]])

C9_InventoryBalance ==
    \A n \in DOMAIN returned :
        LET m == returned[n].manifest
        IN  /\ SumSeq([i \in DOMAIN m.inventory |-> m.inventory[i].quantity]) = m.total_bricks
            /\ m.total_bricks = Len(m.bricks)
            /\ SumOver(m.layers) = Len(m.bricks)
            /\ count_pieces(m).total_pieces = Len(m.bricks)

\* a manifest with two layers, two inventory rows and a row of quantity above one
C9_Witness ==
    /\ Done
    /\ Cardinality(DOMAIN LastManifest.layers) = 2
    /\ Len(LastManifest.inventory) >= 2
    /\ \E i \in DOMAIN LastManifest.inventory : LastManifest.inventory[i].quantity >= 2

(***************************************************************************)
(* C10  Availability fallback: no brick is placed of a part the oracle     *)
(* denied for the group's colour id, and the cells go to the next parts: a *)
(* 2x4 block whose 2x4 part is denied and whose 2x2 part is allowed is     *)
(* packed as exactly two 2x2 bricks.                                       *)
(***************************************************************************)
Block2x4 == [c \in {<<x, y, 0>> : x \in 0 .. 3, y \in 0 .. 1} |-> HexColours[1]]

DeniedBlock2x4 ==
    /\ Done
    /\ voxel_grid = Block2x4
    /\ <<3001, 4>> \in Denied(availability_cache)
    /\ <<3003, 4>> \in DOMAIN availability_cache \ Denied(availability_cache)

C10_Fallback ==
    /\ \A b \in Placed : <<b.part_id, b.color_id>> \notin Denied(availability_cache)
    /\ DeniedBlock2x4 =>
          placed_bricks = <<PlacedBrick(3003, <<0, 0, 0>>, 0, 4, TRUE),
                            PlacedBrick(3003, <<2, 0, 0>>, 0, 4, TRUE)>>

C10_Witness == DeniedBlock2x4 /\ Len(placed_bricks) = 2

(***************************************************************************)
(* C11  Verified flag: a placed brick has is_verified = true only if the   *)
(* oracle was asked and confirmed its (part, colour id); in test mode and  *)
(* without credentials the oracle confirms nothing, so bricks placed then  *)
(* are recorded with is_verified = false.                                  *)
(***************************************************************************)
C11_VerifiedFlag ==
    \A b \in Placed :
        b.is_verified =>
            /\ ~test_mode
            /\ api_key
            /\ Get(availability_cache, <<b.part_id, b.color_id>>, FALSE)

(***************************************************************************)
(* C12  Catalogue failure: no call returns a normal manifest while a voxel *)
(* of its input is covered by none of the manifest's bricks (the run would *)
(* end in a fatal error instead).                                          *)
(***************************************************************************)
C12_NoSilentLoss ==
    \A n \in DOMAIN returned :
        LET bricks == StudBricks(returned[n].manifest)
        IN  \A v \in DOMAIN LoadVoxels(returned[n].voxel_data) :
                \E i \in DOMAIN bricks : v \in Footprint(bricks[i])

(***************************************************************************)
(* Scenario inputs: one-colour prisms [0, w) x [0, d) x [0, h).            *)
(***************************************************************************)
SceneW == 8
SceneD == 4
SceneH == 2

\* the voxel list of the prism, layer after layer
Prism(w, d, h) == [z \in 1 .. h |-> Box(0, w - 1, 0, d - 1, z - 1, HexColours[1])]

SceneInputs == {Prism(w, d, h) : w \in 1 .. SceneW, d \in 1 .. SceneD, h \in 1 .. SceneH}

\* a freshly constructed builder is given a prism
ProcessScene ==
    /\ pc = "idle"
    /\ UNCHANGED <<concurrent, probe>>
    /\ \E vd \in SceneInputs : ProcessVoxelsFrom(vd)

NextScenes == ProcessScene \/ BeginGroup \/ TryPart

SpecScenes == Init /\ [][NextScenes]_vars

\* no (part, colour id) has been denied by the oracle
AllAvailable == Denied(availability_cache) = {}

\* (part, origin) of the placed bricks
PartsAt(bricks) ==
    {<<bricks[i].part_id, bricks[i].position.studs>> : i \in DOMAIN bricks}

(***************************************************************************)
(* C13  Scenario S1: the 2x2x2 one-colour cube with every part available   *)
(* is returned as total_bricks = 2, a 2x2 brick at (0,0,0) and a 2x2 brick *)
(* at (0,0,1): parity is relaxed on the odd layer, where no odd origin     *)
(* admits a placement.                                                     *)
(***************************************************************************)
C13_CubeTwoBricks ==
    (Done /\ voxel_data = Prism(2, 2, 2) /\ AllAvailable) =>
        /\ LastManifest.total_bricks = 2
        /\ PartsAt(LastManifest.bricks) = {<<3003, <<0, 0, 0>>>>, <<3003, <<0, 0, 1>>>>}

(***************************************************************************)
(* C14  Single-cell colour group: when the run has returned, a voxel that  *)
(* is alone in its colour group on its layer, above a layer without seams, *)
(* is covered by exactly one brick, a 1x1 part with the voxel as origin,   *)
(* whatever the parity of x, y and z; a single-voxel input gives           *)
(* total_bricks = 1.                                                       *)
(***************************************************************************)
C14_SingleCell ==
    Done =>
        /\ \A v \in DOMAIN voxel_grid :
              (/\ VoxelSet(voxel_grid, v[3], voxel_grid[v]) = {<<v[1], v[2]>>}
               /\ SeamColumns(v[3] - 1) = {})
              => \E b \in Placed :
                    /\ {c \in Placed : v \in Footprint(c)} = {b}
                    /\ b.part_id = 3005 /\ b.position = v
        /\ Cardinality(DOMAIN voxel_grid) = 1 => LastManifest.total_bricks = 1

(***************************************************************************)
(* C15  Greedy 8x4: the one-layer 8x4 one-colour rectangle at the origin,  *)
(* every part available, is packed into exactly ceil(32 / max_area) bricks *)
(* of the largest-area part of the catalogue (4 bricks of part 3001), and  *)
(* no placed brick has width 1.                                            *)
(***************************************************************************)
Area(p) == p.width * p.height

MaxArea == CHOOSE a \in {Area(DiscoveredParts[i]) : i \in DOMAIN DiscoveredParts} :
               \A i \in DOMAIN DiscoveredParts : Area(DiscoveredParts[i]) <= a

\* ceil(n / d) for positive d
CeilDiv(n, d) == (n + d - 1) \div d

Rect8x4Packed == Done /\ voxel_data = Prism(8, 4, 1) /\ AllAvailable

MaxParts == 2

\* the fallback parts and the 2x3 brick, which is not a priority part
PartPool ==
    {_get_fallback_parts[i] : i \in DOMAIN _get_fallback_parts}
        \cup {[part_num |-> 3002, width |-> 3, height |-> 2]}

RECURSIVE PartLists(_)
\* lists of at most n distinct parts of the pool
PartLists(n) ==
    IF n = 0 THEN {<<>>}
    ELSE LET shorter == PartLists(n - 1)
         IN  shorter \cup
             UNION {{Append(l, p) : p \in PartPool \ {l[i] : i \in DOMAIN l}} :
                       l \in shorter}

CandidateLists == PartLists(MaxParts) \ {<<>>}

\* head of the colour-group loop when discovery returns a candidate list
BeginGroupWith ==
    /\ pc = "group"
    /\ UNCHANGED <<concurrent, probe>>
    /\ IF search_mode = "unset"
       THEN /\ pc' = "raised"
            /\ ClearLocals
       ELSE \E discovered_parts \in CandidateLists :
            /\ hex_color' = Head(groups)
            /\ groups' = Tail(groups)
            /\ color_id' = get_closest_lego_color(Head(groups))
            /\ parts' = PartOrder(discovered_parts)
            /\ part_i' = 1
            /\ remaining_voxels' = VoxelSet(voxel_grid, layer_z, Head(groups))
            /\ pc' = "part"
            /\ layer_z' = layer_z
    /\ UNCHANGED <<test_mode, api_key, search_mode, availability_cache, voxel_data,
                   voxel_grid, placed_bricks, occupied_positions, layer_bricks,
                   layer_seams, returned>>

NextOrder == ProcessScene \/ BeginGroupWith \/ TryPart

SpecOrder == Init /\ [][NextOrder]_vars

(***************************************************************************)
(* C16  Largest first: within a colour group the candidate parts are tried *)
(* in non-increasing footprint area, so while the group is being packed no *)
(* brick of it belongs to a part smaller than a candidate that has not yet *)
(* been attempted.                                                         *)
(***************************************************************************)
\* area of the candidate with this part number
AreaOf(part_id) ==
    Area(parts[CHOOSE i \in DOMAIN parts : parts[i].part_num = part_id])

C16_LargestFirst ==
    pc = "part" =>
        /\ \A i, j \in DOMAIN parts : i < j => Area(parts[i]) >= Area(parts[j])
        /\ \A b \in Placed :
              (LayerOf(b) = layer_z /\ b.color_id = color_id) =>
                  \A j \in part_i .. Len(parts) : Area(parts[j]) <= AreaOf(b.part_id)

(***************************************************************************)
(* C17  Empty input: a call of process_voxels with an empty voxel list     *)
(* returns total_bricks = 0, empty bricks[], empty layers and an empty     *)
(* inventory, also on a builder that has packed a non-empty input before.  *)
(***************************************************************************)
C17_EmptyInput ==
    \A n \in DOMAIN returned :
        returned[n].voxel_data = <<>> =>
            /\ returned[n].manifest.total_bricks = 0
            /\ returned[n].manifest.bricks = <<>>
            /\ DOMAIN returned[n].manifest.layers = {}
            /\ returned[n].manifest.inventory = <<>>

\* an empty list was packed right after a call that placed a brick
C17_Witness ==
    \E n \in DOMAIN returned :
        /\ n > 1
        /\ returned[n].voxel_data = <<>>
        /\ returned[n - 1].manifest.total_bricks >= 1

(***************************************************************************)
(* C18  Manifest geometry matches placement: for every brick of a returned *)
(* manifest, dimensions.studs and voxel_coverage describe exactly the      *)
(* cuboid [x, x+w') x [y, y+d') x [z, z+1) the packer marked covered for   *)
(* the brick after its rotation, and the top-level voxel_coverage lists   *)
(* each covered input voxel once and no other stud.                        *)
(***************************************************************************)
Range(s) == {s[i] : i \in DOMAIN s}

C18_ManifestGeometry ==
    \A n \in DOMAIN returned :
        LET m == returned[n].manifest
            listed == [k \in DOMAIN m.voxel_coverage |-> m.voxel_coverage[k].voxel]
        IN  /\ \A i \in DOMAIN m.bricks :
                  LET b == StudBricks(m)[i]
                  IN  /\ b.dimensions = [width |-> RotWidth(b), depth |-> RotDepth(b),
                                         height |-> 1]
                      /\ Range(b.voxel_coverage) = Footprint(b)
                      /\ Len(b.voxel_coverage) = Cardinality(Footprint(b))
            /\ Range(listed) = UNION {Footprint(StudBricks(m)[i]) : i \in DOMAIN m.bricks}
            /\ Len(listed) = Cardinality(Range(listed))
            /\ Range(listed) \subseteq DOMAIN LoadVoxels(returned[n].voxel_data)
            /\ (Done /\ n = Len(returned)) => Range(listed) = occupied_positions

(***************************************************************************)
(* LDraw export: MasterBuilder.export_to_ldraw.  A line of the text is the *)
(* sequence of its tokens; "<part>.dat" is the part number.                *)
(***************************************************************************)
LDrawScale == 20

\* LDrawGenerator._get_rotation_matrix
_get_rotation_matrix(rotation_degrees) ==
    IF rotation_degrees = 0 THEN <<1, 0, 0, 0, 1, 0, 0, 0, 1>>
    ELSE IF rotation_degrees = 90 THEN <<0, 0, 1, 0, 1, 0, 0 - 1, 0, 0>>
    ELSE IF rotation_degrees = 180 THEN <<0 - 1, 0, 0, 0, 1, 0, 0, 0, 0 - 1>>
    ELSE IF rotation_degrees = 270 THEN <<0, 0, 0 - 1, 0, 1, 0, 1, 0, 0>>
    ELSE <<1, 0, 0, 0, 1, 0, 0, 0, 1>>

\* the type 1 line of one brick: the matrix is always the identity
LDrawLine(brick_data) ==
    <<1, brick_data.color_id,
      brick_data.position.studs[1] * LDrawScale,
      brick_data.position.studs[2] * LDrawScale,
      brick_data.position.studs[3] * LDrawScale>>
        \o <<1, 0, 0, 0, 1, 0, 0, 0, 1>> \o <<brick_data.part_id>>

\* header, one line per brick, footer
export_to_ldraw(manifest) ==
    << <<0, "LEGO Build">>, <<0, "Name: model.ldr">>, <<0, "Author: LEGO Master Builder">>, <<>> >>
        \o [i \in DOMAIN manifest.bricks |-> LDrawLine(manifest.bricks[i])]
        \o << <<>>, <<0, "// Total bricks:", Len(manifest.bricks)>> >>

(***************************************************************************)
(* C19  LDraw round trip: parsing the type 1 lines of the exported text    *)
(* gives back, brick by brick, the colour id, part id, stud position and   *)
(* rotation of bricks[].                                                   *)
(***************************************************************************)
IsType1(line) == line # <<>> /\ line[1] = 1

\* the rotation whose matrix stands on the line
RotationOfMatrix(matrix) ==
    CHOOSE r \in {ROTATIONS[i] : i \in DOMAIN ROTATIONS} : _get_rotation_matrix(r) = matrix

\* reading of a type 1 line: 1 colour x y z a..i part
ParseType1(line) ==
    [color_id |-> line[2],
     position |-> <<line[3] \div LDrawScale, line[4] \div LDrawScale,
                    line[5] \div LDrawScale>>,
     rotation |-> RotationOfMatrix(SubSeq(line, 6, 14)),
     part_id |-> line[15]]

BrickKey(b) ==
    [color_id |-> b.color_id, position |-> b.position.studs, rotation |-> b.rotation,
     part_id |-> b.part_id]

C19_LDrawRoundTrip ==
    \A n \in DOMAIN returned :
        LET m == returned[n].manifest
            parsed == SelectSeq(export_to_ldraw(m), IsType1)
        IN  /\ Len(parsed) = Len(m.bricks)
            /\ \A i \in DOMAIN m.bricks : ParseType1(parsed[i]) = BrickKey(m.bricks[i])

(***************************************************************************)
(* The build guide (InstructionManualGenerator.generate_build_guide).      *)
(***************************************************************************)
\* container[key] of Python on a dict: the value under the key, or KeyError
\* when the dict has no such key.  The keys of the manifest's position dict
\* are strings, so the index 2 of the guide is written as the key "2".
GetItem(container, key) ==
    IF key \in DOMAIN container
    THEN [raised |-> FALSE, value |-> container[key]]
    ELSE [raised |-> TRUE]

\* z = brick.get("position", [0, 0, 0])[2]
StepLayer(brick) == GetItem(brick.position, "2")

RECURSIVE SortedLayers(_)
\* sorted(bricks_by_layer.keys())
SortedLayers(S) ==
    IF S = {} THEN <<>>
    ELSE <<Min(S)>> \o SortedLayers(S \ {Min(S)})

\* the guide returned by the except clause
FailedGuide ==
    [total_steps |-> 0, total_bricks |-> 0, difficulty |-> "Unknown", steps |-> <<>>]

generate_build_guide(manifest) ==
    LET bricks == manifest.bricks
        layer == [i \in DOMAIN bricks |-> StepLayer(bricks[i])]
    IN  IF \E i \in DOMAIN bricks : layer[i].raised THEN FailedGuide
        ELSE LET sorted_layers == SortedLayers({layer[i].value : i \in DOMAIN bricks})
                 total_bricks == Len(bricks)
                 bricks_in_layer(z) ==
                     SelectSeq(bricks, LAMBDA b : StepLayer(b).value = z)
             IN  [total_steps |-> Len(sorted_layers),
                  total_bricks |-> total_bricks,
                  difficulty |-> IF total_bricks < 50 THEN "Easy"
                                 ELSE IF total_bricks < 150 THEN "Medium"
                                 ELSE "Hard",
                  steps |-> [s \in DOMAIN sorted_layers |->
                                [step_number |-> s,
                                 layer_z |-> sorted_layers[s],
                                 bricks_in_step |-> bricks_in_layer(sorted_layers[s])]]]

(***************************************************************************)
(* C20  Assembly guide: the build guide generated from a manifest emitted  *)
(* by the master builder has exactly one step per layer z that holds at    *)
(* least one brick, its steps are in ascending z, total_steps is the       *)
(* number of non-empty layers and its total_bricks is the manifest's       *)
(* total_bricks.                                                           *)
(***************************************************************************)
C20_AssemblyGuide ==
    \A n \in DOMAIN returned :
        LET m == returned[n].manifest
            guide == generate_build_guide(m)
            layers == {StudBricks(m)[i].position[3] : i \in DOMAIN m.bricks}
        IN  /\ {guide.steps[s].layer_z : s \in DOMAIN guide.steps} = layers
            /\ Len(guide.steps) = Cardinality(layers)
            /\ \A s, t \in DOMAIN guide.steps :
                  s < t => guide.steps[s].layer_z < guide.steps[t].layer_z
            /\ guide.total_steps = Cardinality(layers)
            /\ guide.total_bricks = m.total_bricks

(***************************************************************************)
(* C21  Cost linearity: for every manifest, count_pieces returns           *)
(* estimated_cost equal to the sum over the inventory groups (part,        *)
(* colour) of unit cost times quantity, in whole cents, and                *)
(* total_unique_pieces equal to the number of distinct (part, colour)      *)
(* pairs.                                                                  *)
(***************************************************************************)
\* quantity of a (part, colour) group among the bricks of a manifest
QuantityOf(m, pair) ==
    Cardinality({i \in DOMAIN m.bricks :
                    m.bricks[i].part_id = pair[1] /\ m.bricks[i].color_id = pair[2]})

RECURSIVE SumOfCosts(_, _)
\* sum over the groups S of unit cost times quantity, in cents
SumOfCosts(S, m) ==
    IF S = {} THEN 0
    ELSE LET pair == CHOOSE x \in S : TRUE
         IN  Get(PIECE_PRICES, pair[1], 5) * QuantityOf(m, pair)
                 + SumOfCosts(S \ {pair}, m)

PairsOf(m) == {<<m.bricks[i].part_id, m.bricks[i].color_id>> : i \in DOMAIN m.bricks}

C21_CostLinearity ==
    \A n \in DOMAIN returned :
        LET m == returned[n].manifest
        IN  /\ count_pieces(m).estimated_cost = SumOfCosts(PairsOf(m), m)
            /\ count_pieces(m).total_unique_pieces = Cardinality(PairsOf(m))

\* a manifest with two groups of different unit cost, one of them of
\* several bricks
C21_Witness ==
    /\ Done
    /\ \E p, q \in PairsOf(LastManifest) :
          /\ PricePerPiece(p[1]) # PricePerPiece(q[1])
          /\ CountKey(LastManifest.bricks, p) >= 2
    /\ count_pieces(LastManifest).estimated_cost > 0

(***************************************************************************)
(* C22  Seam memory: while layer z+1 is packed, the previous-layer seam    *)
(* set the packer consults is exactly the set of x and x+w of the bricks   *)
(* placed on layer z in the current run; it is empty for the first layer   *)
(* of every run, whatever the same builder packed before.                  *)
(***************************************************************************)
Packing == pc \notin {"idle", "done", "raised"}

C22_SeamMemory ==
    Packing => PrevLayerSeams(layer_seams, layer_z) = SeamColumns(layer_z - 1)

(***************************************************************************)
(* C23  Seam map: after a run, for every layer z that received bricks and  *)
(* every column c of that layer's seam set, the manifest's seam_map has an *)
(* entry (layer_z = z, x_position = c, width = 1, covered_by), covered_by  *)
(* being the part of a brick of layer z+1 whose x-span centre lies within  *)
(* w/2 of c, or null when there is no such brick.                          *)
(***************************************************************************)
\* the bricks of layer z+1 whose centre x + w/2 lies within w/2 of column c
CoveringBricks(z, c) ==
    {b \in BricksOn(z + 1) :
        LET d == 2 * b.position[1] + RotWidth(b) - 2 * c
        IN  (0 - RotWidth(b)) <= d /\ d <= RotWidth(b)}

C23_SeamMap ==
    Done =>
        \A z \in GridZ :
            BricksOn(z) # {} =>
                \A c \in Get(layer_seams, z, {}) :
                    \E k \in DOMAIN LastManifest.seam_map :
                        LET entry == LastManifest.seam_map[k]
                        IN  /\ entry.layer_z = z
                            /\ entry.x_position = c
                            /\ entry.width = 1
                            /\ IF CoveringBricks(z, c) = {}
                               THEN entry.covered_by = "null"
                               ELSE \E b \in CoveringBricks(z, c) :
                                       entry.covered_by = b.part_id

(***************************************************************************)
(* The availability oracle as a coroutine: verify_part_availability        *)
(* suspends at "await client.get" and several calls on the global client   *)
(* may be in flight.                                                       *)
(***************************************************************************)
\* the (part, colour id) pairs asked
OracleKeys == {<<3001, 4>>, <<3005, 4>>}

\* what the awaited request ends in: a response with a status code, or an
\* exception raised to the except clauses
Outcomes ==
    {[kind |-> "response", status |-> 200],
     [kind |-> "response", status |-> 404],
     [kind |-> "response", status |-> 500],
     [kind |-> "HTTPStatusError", status |-> 404],
     [kind |-> "HTTPStatusError", status |-> 500],
     [kind |-> "Exception", status |-> 0]}

\* the verdict stored and returned for an outcome
Verdict(o) ==
    IF o.kind = "response" THEN o.status = 200
    ELSE IF o.kind = "HTTPStatusError" THEN o.status # 404
    ELSE TRUE

\* the call up to its first suspension: cache hit, missing key, or request sent
CallVerify(c) ==
    /\ calls[c].pc \in {"idle", "returned"}
    /\ calls[c].made < MaxCalls
    /\ \E cache_key \in OracleKeys :
          LET call == [calls[c] EXCEPT !.made = @ + 1, !.cache_key = cache_key]
          IN  IF cache_key \in DOMAIN availability_cache
              THEN /\ calls' = [calls EXCEPT ![c] =
                                   [call EXCEPT !.pc = "returned", !.queried = FALSE,
                                                !.result = availability_cache[cache_key]]]
                   /\ UNCHANGED availability_cache
              ELSE IF ~api_key
              THEN /\ calls' = [calls EXCEPT ![c] =
                                   [call EXCEPT !.pc = "returned", !.queried = FALSE,
                                                !.result = TRUE]]
                   /\ availability_cache' = Put(availability_cache, cache_key, TRUE)
              ELSE /\ calls' = [calls EXCEPT ![c] =
                                   [call EXCEPT !.pc = "awaiting", !.queried = TRUE]]
                   /\ UNCHANGED availability_cache
    /\ UNCHANGED <<test_mode, api_key, search_mode, voxel_data, voxel_grid, placed_bricks,
                   occupied_positions, layer_bricks, layer_seams, pc, layer_z, groups,
                   hex_color, color_id, parts, part_i, remaining_voxels, returned,
                   tasks, turn, probe>>

\* the awaited request ends: the verdict is stored and returned
AnswerVerify(c) ==
    /\ calls[c].pc = "awaiting"
    /\ \E o \in Outcomes :
          /\ availability_cache' = Put(availability_cache, calls[c].cache_key, Verdict(o))
          /\ calls' = [calls EXCEPT ![c] = [@ EXCEPT !.pc = "returned",
                                                      !.result = Verdict(o)]]
    /\ UNCHANGED <<test_mode, api_key, search_mode, voxel_data, voxel_grid, placed_bricks,
                   occupied_positions, layer_bricks, layer_seams, pc, layer_z, groups,
                   hex_color, color_id, parts, part_i, remaining_voxels, returned,
                   tasks, turn, probe>>

BeginVerify == \E c \in Callers : CallVerify(c)

EndVerify == \E c \in Callers : AnswerVerify(c)

NextOracle == BeginVerify \/ EndVerify

SpecOracle == Init /\ [][NextOracle]_vars

(***************************************************************************)
(* C24  Oracle cache is write-once: a verdict stored for (part, colour id) *)
(* never changes, and a call made once it is stored returns that verdict   *)
(* without querying the service, also when two queries for the same pair   *)
(* overlap in time and the service answers them differently.               *)
(***************************************************************************)
C24_WriteOnce ==
    [][/\ \A k \in DOMAIN availability_cache :
             /\ k \in DOMAIN availability_cache'
             /\ availability_cache'[k] = availability_cache[k]
       /\ \A c \in Callers :
             (/\ calls'[c].made = calls[c].made + 1
              /\ calls'[c].cache_key \in DOMAIN availability_cache)
             => /\ calls'[c].pc = "returned"
                /\ ~calls'[c].queried
                /\ calls'[c].result = availability_cache[calls'[c].cache_key]]_vars

(***************************************************************************)
(* Overlapping runs on one builder.  process_voxels is a coroutine: it     *)
(* runs until it awaits the oracle's request (a cache miss with            *)
(* credentials, outside test mode), where the event loop may run another   *)
(* coroutine or cancel this one.  The builder's fields are the shared      *)
(* variables; tasks[t] holds the locals of coroutine t.                    *)
(***************************************************************************)
OverlapW == 3
OverlapH == 2

\* one-colour rows [0, w) x {0} x [0, h)
OverlapInputs == {Prism(w, 1, h) : w \in 1 .. OverlapW, h \in 1 .. OverlapH}

Max(S) == CHOOSE m \in S : \A n \in S : n <= m

\* color_groups of layer z, built from self.voxel_grid when the layer starts
LayerGroups(vd, grid, z) ==
    LET order == GroupOrder(vd, z, {})
    IN  [i \in DOMAIN order |->
            [hex_color |-> order[i], cells |-> VoxelSet(grid, z, order[i])]]

\* the layers "for z in range(min_z, max_z + 1)" still finds in self.voxel_grid
LayersAfter(grid, z, max_z) == {zz \in LayersOf(grid) : zz > z /\ zz <= max_z}

\* fields no coroutine of process_voxels writes
OverlapFrame ==
    UNCHANGED <<test_mode, api_key, search_mode, pc, layer_z, groups, hex_color, color_id,
                parts, part_i, remaining_voxels, calls, probe>>

\* process_voxels up to _process_layer of its first layer
StartRun(t) ==
    /\ turn = 0
    /\ tasks[t].pc = "idle"
    /\ \E vd \in OverlapInputs :
       \E grid \in {LoadVoxels(vd)} :
          /\ voxel_data' = vd
          /\ voxel_grid' = grid
          /\ placed_bricks' = <<>>
          /\ occupied_positions' = {}
          /\ layer_bricks' = <<>>
          /\ UNCHANGED <<availability_cache, layer_seams>>
          /\ IF DOMAIN grid = {}
             THEN /\ returned' = Append(returned,
                                        [voxel_data |-> vd,
                                         manifest |-> _generate_manifest(<<>>, <<>>)])
                  /\ tasks' = [tasks EXCEPT ![t] = [IdleTask EXCEPT !.pc = "done",
                                                                   !.voxel_data = vd]]
                  /\ turn' = 0
             ELSE /\ tasks' = [tasks EXCEPT ![t] =
                                  [IdleTask EXCEPT
                                      !.pc = "group", !.voxel_data = vd,
                                      !.max_z = Max(LayersOf(grid)),
                                      !.layer_z = Min(LayersOf(grid)),
                                      !.groups = LayerGroups(vd, grid, Min(LayersOf(grid)))]]
                  /\ turn' = t
                  /\ UNCHANGED returned
    /\ OverlapFrame

\* head of the colour-group loop of _process_layer
StartGroup(t) ==
    /\ turn = t
    /\ tasks[t].pc = "group"
    /\ IF search_mode = "unset"
       THEN /\ tasks' = [tasks EXCEPT ![t].pc = "raised"]
            /\ turn' = 0
       ELSE /\ tasks' = [tasks EXCEPT ![t] =
                            [tasks[t] EXCEPT
                                !.pc = "pass",
                                !.hex_color = Head(tasks[t].groups).hex_color,
                                !.color_id =
                                    get_closest_lego_color(Head(tasks[t].groups).hex_color),
                                !.remaining_voxels = Head(tasks[t].groups).cells,
                                !.groups = Tail(tasks[t].groups),
                                !.parts = PartOrder(DiscoveredParts),
                                !.part_i = 1, !.rot_i = 1]]
            /\ turn' = t
    /\ UNCHANGED <<availability_cache, voxel_data, voxel_grid, placed_bricks,
                   occupied_positions, layer_bricks, layer_seams, returned>>
    /\ OverlapFrame

\* _greedy_place_bricks_with_verification of task t after the verdict, and
\* the loop control of _process_layer and process_voxels up to the next call
PlaceAndGoOn(t, is_available) ==
    LET task == tasks[t]
        part_info == task.parts[task.part_i]
        rotation == ROTATIONS[task.rot_i]
        dims == _get_rotated_dimensions(part_info.width, part_info.height, rotation)
        st0 == [placed |-> <<>>, remaining |-> {}, placed_bricks |-> placed_bricks,
                layer_bricks |-> layer_bricks,
                occupied_positions |-> occupied_positions,
                layer_seams |-> layer_seams]
    IN  \E st \in {_greedy_place_bricks(st0, task.remaining_voxels, dims[1], dims[2],
                                        part_info.part_num, task.color_id,
                                        task.layer_z, rotation, is_available)} :
          LET rem == task.remaining_voxels \
                         Occupied2D(st.placed, dims[1], dims[2], task.layer_z)
              later == LayersAfter(voxel_grid, task.layer_z, task.max_z)
          IN  /\ placed_bricks' = st.placed_bricks
              /\ layer_bricks' = st.layer_bricks
              /\ occupied_positions' = st.occupied_positions
              /\ layer_seams' = st.layer_seams
              /\ UNCHANGED <<voxel_data, voxel_grid>>
              /\ IF rem # {} /\ task.rot_i < Len(ROTATIONS)
                 THEN /\ tasks' = [tasks EXCEPT ![t] =
                                      [task EXCEPT !.pc = "pass", !.remaining_voxels = rem,
                                                   !.rot_i = @ + 1]]
                      /\ turn' = t
                      /\ UNCHANGED returned
                 ELSE IF rem # {} /\ task.part_i < Len(task.parts)
                 THEN /\ tasks' = [tasks EXCEPT ![t] =
                                      [task EXCEPT !.pc = "pass", !.remaining_voxels = rem,
                                                   !.part_i = @ + 1, !.rot_i = 1]]
                      /\ turn' = t
                      /\ UNCHANGED returned
                 ELSE IF task.groups # <<>>
                 THEN /\ tasks' = [tasks EXCEPT ![t] =
                                      [task EXCEPT !.pc = "group", !.remaining_voxels = rem]]
                      /\ turn' = t
                      /\ UNCHANGED returned
                 ELSE IF later # {}
                 THEN /\ tasks' = [tasks EXCEPT ![t] =
                                      [task EXCEPT
                                          !.pc = "group", !.remaining_voxels = rem,
                                          !.layer_z = Min(later),
                                          !.groups = LayerGroups(voxel_data, voxel_grid,
                                                                 Min(later))]]
                      /\ turn' = t
                      /\ UNCHANGED returned
                 ELSE /\ tasks' = [tasks EXCEPT ![t] =
                                      [task EXCEPT !.pc = "done", !.remaining_voxels = rem]]
                      /\ turn' = 0
                      /\ returned' =
                             Append(returned,
                                    [voxel_data |-> task.voxel_data,
                                     manifest |-> _generate_manifest(st.placed_bricks,
                                                                     st.layer_bricks)])

\* the call of _greedy_place_bricks_with_verification up to its await: test
\* mode, a cached verdict and a missing key go on without suspending
CallPass(t) ==
    /\ turn = t
    /\ tasks[t].pc = "pass"
    /\ LET cache_key == <<tasks[t].parts[tasks[t].part_i].part_num, tasks[t].color_id>>
       IN  IF test_mode
           THEN /\ PlaceAndGoOn(t, TRUE)
                /\ UNCHANGED availability_cache
           ELSE IF cache_key \in DOMAIN availability_cache
           THEN /\ PlaceAndGoOn(t, availability_cache[cache_key])
                /\ UNCHANGED availability_cache
           ELSE IF ~api_key
           THEN /\ PlaceAndGoOn(t, TRUE)
                /\ availability_cache' = Put(availability_cache, cache_key, TRUE)
           ELSE /\ tasks' = [tasks EXCEPT ![t].pc = "awaiting"]
                /\ turn' = 0
                /\ UNCHANGED <<availability_cache, voxel_data, voxel_grid, placed_bricks,
                               occupied_positions, layer_bricks, layer_seams, returned>>
    /\ OverlapFrame

\* the service has every part asked for in these runs
OverlapStatuses == {200}

\* the oracle's request of task t ends and the coroutine is resumed
ResumePass(t) ==
    /\ turn = 0
    /\ tasks[t].pc = "awaiting"
    /\ LET cache_key == <<tasks[t].parts[tasks[t].part_i].part_num, tasks[t].color_id>>
       IN  \E status \in OverlapStatuses :
              /\ availability_cache' = Put(availability_cache, cache_key, status = 200)
              /\ PlaceAndGoOn(t, status = 200)
    /\ OverlapFrame

\* the coroutine of task t is cancelled at its await: CancelledError leaves
\* process_voxels, the builder keeps its fields
CancelPass(t) ==
    /\ turn = 0
    /\ tasks[t].pc = "awaiting"
    /\ tasks' = [tasks EXCEPT ![t].pc = "cancelled"]
    /\ UNCHANGED <<turn, availability_cache, voxel_data, voxel_grid, placed_bricks,
                   occupied_positions, layer_bricks, layer_seams, returned>>
    /\ OverlapFrame

Start == \E t \in Tasks : StartRun(t)

Group == \E t \in Tasks : StartGroup(t)

Pass == \E t \in Tasks : CallPass(t)

Resume == \E t \in Tasks : ResumePass(t)

Cancel == \E t \in Tasks : CancelPass(t)

NextOverlap == Start \/ Group \/ Pass \/ Resume

SpecOverlap == Init /\ [][NextOverlap]_vars

(***************************************************************************)
(* The manifest of a run that has a fresh builder to itself, every part    *)
(* being available: the loops of process_voxels and _process_layer.        *)
(***************************************************************************)
RECURSIVE SoloParts(_, _, _, _, _, _)
SoloParts(st, rem, part_list, i, cid, z) ==
    IF i > Len(part_list) \/ rem = {} THEN st
    ELSE LET r == TryRotations([st |-> st, remaining_voxels |-> rem], 1, part_list[i],
                               cid, z, TRUE)
         IN  SoloParts(r.st, r.remaining_voxels, part_list, i + 1, cid, z)

RECURSIVE SoloGroups(_, _, _)
SoloGroups(st, color_groups, z) ==
    IF color_groups = <<>> THEN st
    ELSE SoloGroups(SoloParts(st, Head(color_groups).cells, PartOrder(DiscoveredParts), 1,
                              get_closest_lego_color(Head(color_groups).hex_color), z),
                    Tail(color_groups), z)

RECURSIVE SoloLayers(_, _, _, _)
SoloLayers(st, vd, grid, zs) ==
    IF zs = {} THEN st
    ELSE SoloLayers(SoloGroups(st, LayerGroups(vd, grid, Min(zs)), Min(zs)),
                    vd, grid, zs \ {Min(zs)})

SoloManifest(vd) ==
    LET fresh == [placed |-> <<>>, remaining |-> {}, placed_bricks |-> <<>>,
                  layer_bricks |-> <<>>, occupied_positions |-> {},
                  layer_seams |-> <<>>]
        st == SoloLayers(fresh, vd, LoadVoxels(vd), LayersOf(LoadVoxels(vd)))
    IN  _generate_manifest(st.placed_bricks, st.layer_bricks)

\* a run of the one-call machine with nothing denied returns SoloManifest
SoloAgrees == (Done /\ AllAvailable) => LastManifest = SoloManifest(voxel_data)

(***************************************************************************)
(* C25  Run isolation: packing runs that overlap in time, interleaved at   *)
(* the oracle's suspension points, share no occupancy grid, seam set or    *)
(* placements vector: each run returns exactly the manifest it would       *)
(* return alone, also when the runs go through one builder instance.       *)
(***************************************************************************)
C25_RunIsolation ==
    \A n \in DOMAIN returned :
        returned[n].manifest = SoloManifest(returned[n].voxel_data)

\* runs that may also be cancelled at the oracle's await
NextCancel == Start \/ Group \/ Pass \/ Resume \/ Cancel

SpecCancel == Init /\ [][NextCancel]_vars

(***************************************************************************)
(* C26  Cancellation: when a run is cancelled at an oracle suspension      *)
(* point while layer z is being packed, the placements the builder keeps,  *)
(* and the manifest generated from them, hold no brick of layer z, and     *)
(* total_bricks is the number of bricks of the completed layers below.     *)
(* The run considered is the only one the builder has been given.          *)
(***************************************************************************)
CancelledAlone(t) ==
    /\ tasks[t].pc = "cancelled"
    /\ \A u \in Tasks \ {t} : tasks[u].pc = "idle"

C26_Cancellation ==
    \A t \in Tasks :
        CancelledAlone(t) =>
            LET m == _generate_manifest(placed_bricks, layer_bricks)
            IN  /\ BricksOn(tasks[t].layer_z) = {}
                /\ \A i \in DOMAIN m.bricks :
                      m.bricks[i].position.studs[3] # tasks[t].layer_z
                /\ m.total_bricks =
                       Cardinality({i \in DOMAIN placed_bricks :
                                       LayerOf(placed_bricks[i]) < tasks[t].layer_z})

(***************************************************************************)
(* The palette mapper asked on its own, with any colour table.             *)
(***************************************************************************)
\* get_closest_lego_color with the table _fetch_colors returned
ClosestOf(colors, hex_code) ==
    LET best_match == ClosestLoop(colors, _hex_to_rgb(hex_code), <<>>, 0)
    IN  IF best_match # <<>> THEN best_match[1].id ELSE 1

MaxColors == 3

\* colours a table is made of: two of them share an rgb value
ColorPool ==
    {[id |-> 4, rgb |-> <<12, 9, 1, 10, 0, 9>>],
     [id |-> 5, rgb |-> <<12, 9, 1, 10, 0, 9>>],
     [id |-> 2, rgb |-> <<2, 3, 7, 8, 4, 1>>],
     [id |-> 1, rgb |-> <<15, 15, 15, 15, 15, 15>>]}

RECURSIVE ColorTables(_)
\* the tables of at most n colours of the pool, in every order
ColorTables(n) ==
    IF n = 0 THEN {<<>>}
    ELSE LET shorter == ColorTables(n - 1)
         IN  shorter \cup
             UNION {{Append(l, c) : c \in ColorPool \ {l[i] : i \in DOMAIN l}} :
                       l \in shorter}

\* valid hex codes: "#FF0000", "#00FF00" and the three-digit "#F00"
HexInputs == {HexColours[1], HexColours[2], <<15, 0, 0>>}

AskColour ==
    /\ \E colors \in ColorTables(MaxColors) \ {<<>>}, hex_code \in HexInputs :
          probe' = [op |-> "get_closest_lego_color", colors |-> colors,
                    hex_code |-> hex_code, result |-> ClosestOf(colors, hex_code)]
    /\ UNCHANGED <<test_mode, api_key, search_mode, availability_cache, voxel_data,
                   voxel_grid, placed_bricks, occupied_positions, layer_bricks,
                   layer_seams, pc, layer_z, groups, hex_color, color_id, parts, part_i,
                   remaining_voxels, returned, calls, tasks, turn>>

NextPalette == AskColour

SpecPalette == Init /\ [][NextPalette]_vars

(***************************************************************************)
(* C27  Palette nearest neighbour: for a non-empty colour table in any     *)
(* order and a valid hex input, get_closest_lego_color returns the id of a *)
(* table colour at minimal squared RGB distance from the input, and of     *)
(* several equally near colours the one with the lowest colour id.         *)
(***************************************************************************)
Nearest(colors, hex_code) ==
    {i \in DOMAIN colors :
        \A j \in DOMAIN colors :
            _rgb_distance(_hex_to_rgb(hex_code), _hex_to_rgb(colors[i].rgb))
                <= _rgb_distance(_hex_to_rgb(hex_code), _hex_to_rgb(colors[j].rgb))}

C27_NearestColour ==
    probe.op = "get_closest_lego_color" =>
        LET nearest == Nearest(probe.colors, probe.hex_code)
        IN  /\ \E i \in nearest : probe.result = probe.colors[i].id
            /\ \A i \in nearest : probe.result <= probe.colors[i].id

(***************************************************************************)
(* Memo payload of the BB Coin (solana_bb_coin.py).  A text is a run of    *)
(* len characters of one class; json.dumps escapes every non-ASCII         *)
(* character, so a character of the basic plane takes the 6 bytes of       *)
(* \uXXXX and one beyond it the 12 bytes of a surrogate pair.              *)
(***************************************************************************)
MAX_MEMO_BYTES == 600

CharClasses == {"ascii", "bmp", "astral"}

EscapedBytes(cls) == IF cls = "ascii" THEN 1 ELSE IF cls = "bmp" THEN 6 ELSE 12

Text(cls, len) == [cls |-> cls, len |-> len]

\* text[:n]
Slice(text, n) == Text(text.cls, IF text.len < n THEN text.len ELSE n)

\* text or default
OrText(text, default) == IF text.len = 0 THEN default ELSE text

RECURSIVE Digits(_)
Digits(n) == IF n < 10 THEN 1 ELSE 1 + Digits(n \div 10)

\* int(time.time()) has ten digits
TsDigits == 10

\* length of repr of a cost: the int 0 of the default, else a float of cents
CostLen(cents) ==
    IF cents = 0 THEN 1
    ELSE Digits(cents \div 100) + 1 + (IF cents % 10 = 0 THEN 1 ELSE 2)

build_lego_metadata_json(project_name, build_id, total_pieces, step_count, breakdown, estimated_cost) ==
    [t  |-> Text("ascii", 2),
     n  |-> Slice(OrText(project_name, Text("ascii", 12)), 80),
     i  |-> Slice(OrText(build_id, Text("ascii", 0)), 64),
     p  |-> total_pieces,
     s  |-> step_count,
     c  |-> estimated_cost,
     b  |-> [k \in 1 .. (IF Len(breakdown) < 20 THEN Len(breakdown) ELSE 20) |->
                [id |-> breakdown[k].part_id, q |-> breakdown[k].quantity]],
     ts |-> TsDigits]

JsonText(text) == 2 + text.len * EscapedBytes(text.cls)

\* {"id":"...","q":n}
JsonEntry(e) == 1 + 5 + JsonText(e.id) + 1 + 4 + Digits(e.q) + 1

RECURSIVE JsonEntries(_)
JsonEntries(b) ==
    IF b = <<>> THEN 0
    ELSE JsonEntry(Head(b)) + (IF Len(b) > 1 THEN 1 ELSE 0) + JsonEntries(Tail(b))

\* bytes of json.dumps(m, separators=(",", ":")).encode("utf-8")
JsonBytes(m) ==
    2 + (4 + JsonText(m.t)) + 1 + (4 + JsonText(m.n)) + 1 + (4 + JsonText(m.i))
      + 1 + (4 + Digits(m.p)) + 1 + (4 + Digits(m.s)) + 1 + (4 + CostLen(m.c))
      + (IF "b" \in DOMAIN m THEN 1 + 4 + 2 + JsonEntries(m.b) ELSE 0)
      + 1 + (5 + m.ts)

\* the string json.dumps returns: the object it writes down and its size
json_dumps(m) == [text |-> m, bytes |-> JsonBytes(m)]

build_memo_payload(metadata) ==
    IF JsonBytes(metadata) > MAX_MEMO_BYTES
    THEN LET m2 == [k \in DOMAIN metadata \ {"b"} |->
                       IF k = "n" THEN Slice(metadata.n, 40) ELSE metadata[k]]
         IN  json_dumps(m2)
    ELSE json_dumps(metadata)

MaxText == 100
MaxBreakdown == 25

TextLens == {0, 40, 64, 80, MaxText}
Texts == {Text(cls, len) : cls \in CharClasses, len \in TextLens}
Breakdowns ==
    {[k \in 1 .. n |-> [part_id |-> Text("ascii", 4), quantity |-> 1]] :
        n \in {0, 1, 20, MaxBreakdown}}

AskMemo ==
    /\ probe = NoProbe
    /\ \E project_name \in Texts, build_id \in Texts, total_pieces \in {10, 1000},
          breakdown \in Breakdowns, estimated_cost \in {0, 125} :
          \E metadata \in {build_lego_metadata_json(project_name, build_id, total_pieces,
                                                    3, breakdown, estimated_cost)} :
             probe' = [op |-> "build_memo_payload", metadata |-> metadata,
                       result |-> build_memo_payload(metadata)]
    /\ UNCHANGED <<test_mode, api_key, search_mode, availability_cache, voxel_data,
                   voxel_grid, placed_bricks, occupied_positions, layer_bricks,
                   layer_seams, pc, layer_z, groups, hex_color, color_id, parts, part_i,
                   remaining_voxels, returned, calls, tasks, turn>>

NextMemo == AskMemo

SpecMemo == Init /\ [][NextMemo]_vars

(***************************************************************************)
(* C28  Memo size bound: for every record build_lego_metadata_json builds, *)
(* the string build_memo_payload returns encodes to at most 600 UTF-8      *)
(* bytes, and a record that already fits is returned unchanged, with its   *)
(* breakdown b.                                                            *)
(***************************************************************************)
C28_MemoSize ==
    probe.op = "build_memo_payload" =>
        /\ probe.result.bytes <= MAX_MEMO_BYTES
        /\ JsonBytes(probe.metadata) <= MAX_MEMO_BYTES =>
              /\ probe.result.text = probe.metadata
              /\ "b" \in DOMAIN probe.result.text

\* the second half of the claim on its own
C28_FitsUnchanged ==
    (probe.op = "build_memo_payload" /\ JsonBytes(probe.metadata) <= MAX_MEMO_BYTES) =>
        /\ probe.result.text = probe.metadata
        /\ "b" \in DOMAIN probe.result.text

(***************************************************************************)
(* C29  Effective seam rule: on a layer z > 0 above a layer with a         *)
(* non-empty seam set, every placed brick whose x-extent after rotation is *)
(* at most 2 has a seam column c of layer z-1 with x <= c < x+w; a         *)
(* candidate of x-extent above 2 is never rejected by the seam rule, and   *)
(* no candidate is rejected by it on a layer z <= 0.                       *)
(***************************************************************************)
\* x-extents of the parts in their rotations
XExtents == {p.width : p \in Range(DiscoveredParts)} \cup
            {p.height : p \in Range(DiscoveredParts)}

BridgesSeam(b) ==
    \E c \in SeamColumns(LayerOf(b) - 1) :
        b.position[1] <= c /\ c < b.position[1] + RotWidth(b)

Square(part_id) == PartInfo(part_id).width = PartInfo(part_id).height

C30_RotationsInert ==
    \A b \in Placed :
        /\ b.rotation \in {0, 90}
        /\ Square(b.part_id) => b.rotation = 0

\* a finished run holds a quarter-turned brick and a brick of a square part
C30_Witness ==
    /\ Done
    /\ \E b \in Placed : b.rotation = 90 /\ ~Square(b.part_id)
    /\ \E b \in Placed : b.rotation = 0 /\ Square(b.part_id)

====
